---- MODULE Spec2Model ----
(***************************************************************************)
(* Model of the ttstats match-completion pipeline: Game.save and           *)
(* Match.save (pingpong/models.py), the pre_save/post_save handlers of      *)
(* pingpong/signals.py, the match_confirm view (pingpong/views.py) and the  *)
(* Elo rating application of pingpong/elo.py.                               *)
(***************************************************************************)
EXTENDS Integers, Sequences, FiniteSets, TLC

\* ------------------------------------------------------------------------
\* Bounds of the model
\* ------------------------------------------------------------------------
\* game_number ranges over 1..MaxGames
MaxGames == 2
\* leaderboard_generation is not bumped beyond this value
MaxGeneration == 4

\* ------------------------------------------------------------------------
\* Program constants
\* ------------------------------------------------------------------------
\* IntegerField defaults of Player
DefaultElo == 1500
base_k == 32
NewPlayerMatches == 20
\* fixed-point scale of ExpectedTable (six decimal places)
Scale == 1000000

Players == {1, 2, 3}
MatchIds == {1, 2}
Teams == {"team1", "team2"}
NoTeam == "none"
GameNumbers == 1..MaxGames
\* Player.user / UserProfile.email_verified / User.email of a player:
\*   none             Player.user is null
\*   unverified       linked account, email_verified = False
\*   verified         linked account, email_verified = True, User.email set
\*   verified_noemail linked account, email_verified = True, User.email = ""
Accounts == {"none", "unverified", "verified", "verified_noemail"}
MatchTypes == {"casual", "tournament"}
\* (team1_score, team2_score) pairs a Game is saved with
\* (team1_score, team2_score) pairs a Game is saved with: the pairs GameForm
\* accepts, and all pairs Game.save() can be called with
FormScores == {<<11, 5>>, <<5, 11>>}
AnyScores == FormScores \cup {<<7, 7>>}
\* The concurrent invocations of update_player_elo
Procs == {"a", "b"}

VARIABLES
  account,          \* [Players -> Accounts]
  elo_rating,       \* Player.elo_rating
  elo_peak,         \* Player.elo_peak
  matches_for_elo,  \* Player.matches_for_elo
  matches,          \* ids of the Match rows that exist
  team1,            \* Match.team1.players, per match
  team2,            \* Match.team2.players, per match
  best_of,          \* Match.best_of
  match_type,       \* Match.match_type
  winner,           \* Match.winner: "team1", "team2" or "none" (null)
  games,            \* per match: game_number -> Game row
  confirmations,    \* per match: players with a MatchConfirmation row
  elo_history,      \* set of EloHistory rows
  last,             \* what the last operation did (observation only)
  initial,          \* the players' rating fields in the initial state (observation only)
  pc,               \* per invocation of update_player_elo: where it stands
  snap,             \* per invocation: the Player objects it has loaded
  todo,             \* per invocation: the players it has still to update, in order
  wr,               \* per invocation: Player rows written in its open transaction
  ins,              \* per invocation: EloHistory rows inserted in its open transaction
  cache,            \* the Django cache: key -> entry, or Absent
  confirmation_rows \* MatchConfirmation rows of match 1 per player, as the
                    \* table holds them while confirmations race

vars == <<account, elo_rating, elo_peak, matches_for_elo, matches, team1, team2,
          best_of, match_type, winner, games, confirmations, elo_history, last,
          initial, pc, snap, todo, wr, ins, cache, confirmation_rows>>
racevars == <<pc, snap, todo, wr, ins>>
storevars == <<cache, confirmation_rows>>

\* ------------------------------------------------------------------------
\* calculate_expected_score: 1 / (1 + 10 ** ((rating_b - rating_a) / 400)),
\* tabulated for rating_a - rating_b = d2/2, d2 in -MaxDiff2..MaxDiff2, and
\* scaled by Scale. Entry d2 + MaxDiff2 + 1 holds the value for d2 (MaxDiff2
\* is defined below from the length of the table).
\* ------------------------------------------------------------------------
ExpectedTable ==
   <<
      240253, 240779, 241305, 241833, 242361, 242890, 243419, 243950, 244481, 245013,
      245546, 246080, 246614, 247149, 247685, 248222, 248759, 249297, 249837, 250376,
      250917, 251458, 252000, 252543, 253087, 253632, 254177, 254723, 255270, 255817,
      256365, 256915, 257464, 258015, 258566, 259119, 259672, 260225, 260780, 261335,
      261891, 262448, 263005, 263564, 264123, 264682, 265243, 265804, 266366, 266929,
      267493, 268057, 268622, 269188, 269755, 270322, 270890, 271459, 272028, 272599,
      273170, 273742, 274314, 274888, 275462, 276037, 276612, 277188, 277765, 278343,
      278922, 279501, 280081, 280662, 281243, 281825, 282408, 282992, 283576, 284161,
      284747, 285334, 285921, 286509, 287098, 287687, 288277, 288868, 289460, 290052,
      290645, 291239, 291834, 292429, 293025, 293621, 294219, 294817, 295415, 296015,
      296615, 297216, 297817, 298420, 299023, 299626, 300231, 300836, 301441, 302048,
      302655, 303263, 303871, 304480, 305090, 305701, 306312, 306924, 307537, 308150,
      308764, 309378, 309994, 310610, 311226, 311844, 312462, 313080, 313700, 314320,
      314940, 315562, 316184, 316806, 317430, 318054, 318678, 319303, 319929, 320556,
      321183, 321811, 322439, 323069, 323698, 324329, 324960, 325591, 326224, 326857,
      327490, 328125, 328759, 329395, 330031, 330668, 331305, 331943, 332582, 333221,
      333861, 334501, 335142, 335784, 336426, 337069, 337712, 338356, 339001, 339646,
      340292, 340938, 341585, 342233, 342881, 343530, 344179, 344829, 345480, 346131,
      346783, 347435, 348088, 348741, 349395, 350050, 350705, 351361, 352017, 352674,
      353331, 353989, 354648, 355307, 355966, 356626, 357287, 357948, 358610, 359272,
      359935, 360598, 361262, 361927, 362592, 363257, 363923, 364590, 365257, 365924,
      366592, 367261, 367930, 368600, 369270, 369940, 370611, 371283, 371955, 372628,
      373301, 373975, 374649, 375323, 375998, 376674, 377350, 378026, 378703, 379381,
      380059, 380737, 381416, 382095, 382775, 383455, 384136, 384817, 385499, 386181,
      386863, 387546, 388229, 388913, 389598, 390282, 390967, 391653, 392339, 393025,
      393712, 394399, 395087, 395775, 396464, 397153, 397842, 398532, 399222, 399912,
      400603, 401295, 401986, 402678, 403371, 404064, 404757, 405451, 406145, 406839,
      407534, 408229, 408924, 409620, 410316, 411013, 411710, 412407, 413105, 413803,
      414501, 415200, 415899, 416598, 417298, 417998, 418699, 419399, 420100, 420802,
      421503, 422205, 422908, 423610, 424313, 425016, 425720, 426424, 427128, 427832,
      428537, 429242, 429947, 430653, 431359, 432065, 432771, 433478, 434185, 434892,
      435600, 436307, 437015, 437724, 438432, 439141, 439850, 440559, 441269, 441978,
      442688, 443399, 444109, 444820, 445531, 446242, 446953, 447665, 448376, 449088,
      449801, 450513, 451226, 451938, 452651, 453365, 454078, 454792, 455505, 456219,
      456934, 457648, 458362, 459077, 459792, 460507, 461222, 461937, 462653, 463368,
      464084, 464800, 465516, 466232, 466949, 467665, 468382, 469098, 469815, 470532,
      471249, 471967, 472684, 473401, 474119, 474837, 475555, 476272, 476990, 477708,
      478427, 479145, 479863, 480582, 481300, 482019, 482737, 483456, 484175, 484894,
      485613, 486332, 487051, 487770, 488489, 489208, 489928, 490647, 491366, 492086,
      492805, 493524, 494244, 494963, 495683, 496402, 497122, 497841, 498561, 499280,
      500000, 500720, 501439, 502159, 502878, 503598, 504317, 505037, 505756, 506476,
      507195, 507914, 508634, 509353, 510072, 510792, 511511, 512230, 512949, 513668,
      514387, 515106, 515825, 516544, 517263, 517981, 518700, 519418, 520137, 520855,
      521573, 522292, 523010, 523728, 524445, 525163, 525881, 526599, 527316, 528033,
      528751, 529468, 530185, 530902, 531618, 532335, 533051, 533768, 534484, 535200,
      535916, 536632, 537347, 538063, 538778, 539493, 540208, 540923, 541638, 542352,
      543066, 543781, 544495, 545208, 545922, 546635, 547349, 548062, 548774, 549487,
      550199, 550912, 551624, 552335, 553047, 553758, 554469, 555180, 555891, 556601,
      557312, 558022, 558731, 559441, 560150, 560859, 561568, 562276, 562985, 563693,
      564400, 565108, 565815, 566522, 567229, 567935, 568641, 569347, 570053, 570758,
      571463, 572168, 572872, 573576, 574280, 574984, 575687, 576390, 577092, 577795,
      578497, 579198, 579900, 580601, 581301, 582002, 582702, 583402, 584101, 584800,
      585499, 586197, 586895, 587593, 588290, 588987, 589684, 590380, 591076, 591771,
      592466, 593161, 593855, 594549, 595243, 595936, 596629, 597322, 598014, 598705,
      599397, 600088, 600778, 601468, 602158, 602847, 603536, 604225, 604913, 605601,
      606288, 606975, 607661, 608347, 609033, 609718, 610402, 611087, 611771, 612454,
      613137, 613819, 614501, 615183, 615864, 616545, 617225, 617905, 618584, 619263,
      619941, 620619, 621297, 621974, 622650, 623326, 624002, 624677, 625351, 626025,
      626699, 627372, 628045, 628717, 629389, 630060, 630730, 631400, 632070, 632739,
      633408, 634076, 634743, 635410, 636077, 636743, 637408, 638073, 638738, 639402,
      640065, 640728, 641390, 642052, 642713, 643374, 644034, 644693, 645352, 646011,
      646669, 647326, 647983, 648639, 649295, 649950, 650605, 651259, 651912, 652565,
      653217, 653869, 654520, 655171, 655821, 656470, 657119, 657767, 658415, 659062,
      659708, 660354, 660999, 661644, 662288, 662931, 663574, 664216, 664858, 665499,
      666139, 666779, 667418, 668057, 668695, 669332, 669969, 670605, 671241, 671875,
      672510, 673143, 673776, 674409, 675040, 675671, 676302, 676931, 677561, 678189,
      678817, 679444, 680071, 680697, 681322, 681946, 682570, 683194, 683816, 684438,
      685060, 685680, 686300, 686920, 687538, 688156, 688774, 689390, 690006, 690622,
      691236, 691850, 692463, 693076, 693688, 694299, 694910, 695520, 696129, 696737,
      697345, 697952, 698559, 699164, 699769, 700374, 700977, 701580, 702183, 702784,
      703385, 703985, 704585, 705183, 705781, 706379, 706975, 707571, 708166, 708761,
      709355, 709948, 710540, 711132, 711723, 712313, 712902, 713491, 714079, 714666,
      715253, 715839, 716424, 717008, 717592, 718175, 718757, 719338, 719919, 720499,
      721078, 721657, 722235, 722812, 723388, 723963, 724538, 725112, 725686, 726258,
      726830, 727401, 727972, 728541, 729110, 729678, 730245, 730812, 731378, 731943,
      732507, 733071, 733634, 734196, 734757, 735318, 735877, 736436, 736995, 737552,
      738109, 738665, 739220, 739775, 740328, 740881, 741434, 741985, 742536, 743085,
      743635, 744183, 744730, 745277, 745823, 746368, 746913, 747457, 748000, 748542,
      749083, 749624, 750163, 750703, 751241, 751778, 752315, 752851, 753386, 753920,
      754454, 754987, 755519, 756050, 756581, 757110, 757639, 758167, 758695, 759221,
      759747
   >>

\* ------------------------------------------------------------------------
\* Helpers
\* ------------------------------------------------------------------------
RECURSIVE SumOver(_, _)
SumOver(f, S) ==
  IF S = {} THEN 0
  ELSE LET x == CHOOSE y \in S : TRUE IN f[x] + SumOver(f, S \ {x})

Max(a, b) == IF a >= b THEN a ELSE b

\* Python's round() on num/den (den > 0): nearest integer, ties to even.
PyRound(num, den) ==
  LET q == num \div den
      r == num % den
  IN IF 2 * r > den \/ (2 * r = den /\ q % 2 = 1) THEN q + 1 ELSE q

Participants(m) == team1[m] \cup team2[m]
TeamPlayers(m, t) == IF t = "team1" THEN team1[m] ELSE team2[m]
OtherTeam(t) == IF t = "team1" THEN "team2" ELSE "team1"

\* player.user and player.user.profile.email_verified
Verified(p) == account[p] \in {"verified", "verified_noemail"}

\* ------------------------------------------------------------------------
\* models.py: Match properties
\* ------------------------------------------------------------------------
\* Faulty variant: every member of the side, verified or not, must have a row
TeamConfirmedAllMembers(m, ps) == ps \subseteq confirmations[m]

\* Match.team1_confirmed / Match.team2_confirmed for the side with players ps
TeamConfirmed(m, ps) ==
  LET team_ids == {p \in ps : Verified(p)}
      confirmed_ids == confirmations[m]
  IN IF team_ids \subseteq confirmed_ids
     THEN TRUE
     ELSE \A p \in team_ids : ~Verified(p)

team1_confirmed(m) == TeamConfirmed(m, team1[m])
team2_confirmed(m) == TeamConfirmed(m, team2[m])
match_confirmed(m) == team1_confirmed(m) /\ team2_confirmed(m)

\* Faulty variant: both sides must be unverified
should_auto_confirm_both(m, w) ==
  IF w = NoTeam \/ match_confirmed(m)
  THEN FALSE
  ELSE (\A p \in team1[m] : ~Verified(p)) /\ (\A p \in team2[m] : ~Verified(p))

\* Match.should_auto_confirm, on an instance whose winner is w
should_auto_confirm(m, w) ==
  IF w = NoTeam \/ match_confirmed(m)
  THEN FALSE
  ELSE LET team1_all_unverified == \A p \in team1[m] : ~Verified(p)
           team2_all_unverified == \A p \in team2[m] : ~Verified(p)
       IN team1_all_unverified \/ team2_all_unverified

\* Game.save: the winner stored with scores s1, s2 on a row whose winner was old
GameWinner(old, s1, s2) ==
  IF s1 > s2 THEN "team1"
  ELSE IF s2 > s1 THEN "team2"
  ELSE old

\* games.filter(winner=team).count() over the game rows g of one match
Wins(g, t) == Cardinality({n \in DOMAIN g : g[n].winner = t})

games_to_win(m) == (best_of[m] \div 2) + 1

\* Faulty variant: a side needs more than games_to_win wins
SavedWinnerStrict(m, g, w) ==
  IF Wins(g, "team1") > games_to_win(m) THEN "team1"
  ELSE IF Wins(g, "team2") > games_to_win(m) THEN "team2"
  ELSE w

\* Match.save: the winner written by a save of a stored match whose instance
\* carries winner w and whose game rows are g
SavedWinner(m, g, w) ==
  IF Wins(g, "team1") >= games_to_win(m) THEN "team1"
  ELSE IF Wins(g, "team2") >= games_to_win(m) THEN "team2"
  ELSE w

\* ------------------------------------------------------------------------
\* elo.py
\* ------------------------------------------------------------------------
\* largest rating difference, in half points, that ExpectedTable covers
MaxDiff2 == (Len(ExpectedTable) - 1) \div 2

\* Faulty variant: the new-player boost still applies at 20 rated matches.
calculate_k_factor_boost_at_20(m, played) ==
  LET type_multiplier == IF match_type[m] = "tournament" THEN 15 ELSE 10
      best_of_multiplier ==
        IF best_of[m] = 3 THEN 9
        ELSE IF best_of[m] = 5 THEN 10
        ELSE IF best_of[m] = 7 THEN 11
        ELSE 10
      experience_multiplier == IF played <= NewPlayerMatches THEN 15 ELSE 10
  IN (base_k * type_multiplier * best_of_multiplier * experience_multiplier) \div 100

\* calculate_k_factor for a player with `played` matches_for_elo, in tenths
calculate_k_factor(m, played) ==
  LET type_multiplier == IF match_type[m] = "tournament" THEN 15 ELSE 10
      best_of_multiplier ==
        IF best_of[m] = 3 THEN 9
        ELSE IF best_of[m] = 5 THEN 10
        ELSE IF best_of[m] = 7 THEN 11
        ELSE 10
      experience_multiplier == IF played < NewPlayerMatches THEN 15 ELSE 10
  IN (base_k * type_multiplier * best_of_multiplier * experience_multiplier) \div 100

\* calculate_expected_score scaled by Scale; ratings in half points
calculate_expected_score(rating_a, rating_b) ==
  ExpectedTable[(rating_a - rating_b) + MaxDiff2 + 1]

\* calculate_elo_change; ratings in half points, k_factor in twentieths
calculate_elo_change(r1, r2, actual_score, k_factor) ==
  LET expected == calculate_expected_score(r1, r2)
  IN PyRound(k_factor * (actual_score * Scale - expected), 20 * Scale)

\* sum(p.elo_rating for p in players) / len(players), in half points, over the
\* loaded ratings rt
TeamRating(rt, ps) == (2 * SumOver(rt, ps)) \div Cardinality(ps)

\* sum(k_list) / len(k_list), in twentieths, over the loaded matches_for_elo mf
TeamK(m, mf, ps) ==
  (2 * SumOver([p \in ps |-> calculate_k_factor(m, mf[p])], ps)) \div Cardinality(ps)

\* s1 / s2 of update_player_elo: the outcome for side t when the winner is w
ActualScore(t, w) ==
  LET s1 == IF w = "team1" THEN 1 ELSE 0
  IN IF t = "team1" THEN s1 ELSE 1 - s1

\* elo_change_1 / elo_change_2 of update_player_elo for side t, winner w,
\* computed from the loaded ratings rt and matches_for_elo mf
SideChange(m, t, w, rt, mf) ==
  calculate_elo_change(TeamRating(rt, TeamPlayers(m, t)),
                       TeamRating(rt, TeamPlayers(m, OtherTeam(t))),
                       ActualScore(t, w), TeamK(m, mf, TeamPlayers(m, t)))

SideOf(m, p) == IF p \in team1[m] THEN "team1" ELSE "team2"

\* Faulty variant: each player's change is computed from the player's own
\* rating and K-factor instead of the side's averages
PlayerAfterOwnRating(m, p, w, rt, pk, mf) ==
  LET own == calculate_elo_change(2 * rt[p],
                                  TeamRating(rt, TeamPlayers(m, OtherTeam(SideOf(m, p)))),
                                  ActualScore(SideOf(m, p), w),
                                  2 * calculate_k_factor(m, mf[p]))
  IN [elo_rating |-> rt[p] + own,
      elo_peak |-> Max(pk[p], rt[p] + own),
      matches_for_elo |-> mf[p] + 1]

\* The fields p.save(update_fields=[...]) writes for player p
PlayerAfter(m, p, w, rt, pk, mf) ==
  [elo_rating |-> rt[p] + SideChange(m, SideOf(m, p), w, rt, mf),
   elo_peak |-> Max(pk[p], rt[p] + SideChange(m, SideOf(m, p), w, rt, mf)),
   matches_for_elo |-> mf[p] + 1]

\* Faulty variant: old_rating is read after the rating was incremented
HistoryRowAfterUpdate(m, p, w, rt, mf) ==
  [match |-> m, player |-> p,
   old_rating |-> rt[p] + SideChange(m, SideOf(m, p), w, rt, mf),
   new_rating |-> rt[p] + SideChange(m, SideOf(m, p), w, rt, mf),
   rating_change |-> SideChange(m, SideOf(m, p), w, rt, mf),
   k_factor |-> TeamK(m, mf, TeamPlayers(m, SideOf(m, p)))]

\* The EloHistory row update_player_elo creates for player p
HistoryRow(m, p, w, rt, mf) ==
  [match |-> m, player |-> p,
   old_rating |-> rt[p],
   new_rating |-> rt[p] + SideChange(m, SideOf(m, p), w, rt, mf),
   rating_change |-> SideChange(m, SideOf(m, p), w, rt, mf),
   k_factor |-> TeamK(m, mf, TeamPlayers(m, SideOf(m, p)))]

\* EloHistory.objects.filter(match=match).exists()
AlreadyRated(m) == \E h \in elo_history : h.match = m

\* Faulty variant: EloHistory without its unique_together
NoHistoryConflict(m, p) == FALSE

\* unique_together (match, player) of EloHistory: an insert for p conflicts
\* with a stored row
HistoryConflict(m, p) == \E h \in elo_history : h.match = m /\ h.player = p

Untouched(raised) ==
  [elo_rating |-> elo_rating, elo_peak |-> elo_peak,
   matches_for_elo |-> matches_for_elo, elo_history |-> elo_history,
   applied |-> FALSE, raised |-> raised]

\* Steps 1-6 of update_player_elo carried through: every participant is
\* updated from the values loaded at the start and gets a history row
Applied(m, w) ==
  LET after(p) == PlayerAfter(m, p, w, elo_rating, elo_peak, matches_for_elo)
  IN [elo_rating |->
        [p \in Players |->
           IF p \in Participants(m) THEN after(p).elo_rating ELSE elo_rating[p]],
      elo_peak |->
        [p \in Players |->
           IF p \in Participants(m) THEN after(p).elo_peak ELSE elo_peak[p]],
      matches_for_elo |->
        [p \in Players |->
           IF p \in Participants(m) THEN after(p).matches_for_elo
           ELSE matches_for_elo[p]],
      elo_history |->
        elo_history \cup
          {HistoryRow(m, p, w, elo_rating, matches_for_elo) : p \in Participants(m)},
      applied |-> TRUE, raised |-> FALSE]

\* The transaction.atomic() block of update_player_elo, run alone: a
\* conflicting insert raises IntegrityError and the block is rolled back.
ApplyElo(m, w) ==
  IF \E p \in Participants(m) : HistoryConflict(m, p)
  THEN Untouched(TRUE)
  ELSE Applied(m, w)

\* Faulty variant: no "already calculated" guard, rows stored with update_or_create
update_player_elo_reapply(m, w) ==
  IF w = NoTeam THEN Untouched(FALSE)
  ELSE IF ~match_confirmed(m) THEN Untouched(FALSE)
  ELSE [Applied(m, w) EXCEPT
          !.elo_history =
             {h \in elo_history : h.match # m} \cup
               {HistoryRow(m, p, w, elo_rating, matches_for_elo) : p \in Participants(m)}]

\* Faulty variant: no guard on match_confirmed
update_player_elo_unconfirmed(m, w) ==
  IF w = NoTeam THEN Untouched(FALSE)
  ELSE IF AlreadyRated(m) THEN Untouched(FALSE)
  ELSE ApplyElo(m, w)

\* update_player_elo(match) on an instance whose winner is w, run alone
update_player_elo(m, w) ==
  IF w = NoTeam THEN Untouched(FALSE)
  ELSE IF ~match_confirmed(m) THEN Untouched(FALSE)
  ELSE IF AlreadyRated(m) THEN Untouched(FALSE)
  ELSE ApplyElo(m, w)

\* ------------------------------------------------------------------------
\* signals.py
\* ------------------------------------------------------------------------
\* track_match_winner_change (pre_save) for a stored match: _winner_just_set
winner_just_set(m) == winner[m] = NoTeam

\* handle_match_completion goes past its first guard
Completes(m, w) == winner_just_set(m) /\ w # NoTeam

\* Faulty variant: rows only for the players who cannot confirm themselves
AutoConfirmRowsUnverified(m) == {p \in Participants(m) : ~Verified(p)}

\* handle_match_completion step 1: the MatchConfirmation rows of bulk_create
AutoConfirmRows(m) == Participants(m)

\* Faulty variant: players who have already confirmed are mailed too
NeedsEmailIgnoringRows(m, p) == account[p] = "verified"

\* handle_match_completion step 2: the condition under which player p is mailed
NeedsEmail(m, p) ==
  /\ account[p] = "verified"
  /\ p \notin confirmations[m]

\* Whether the save of a match whose new winner is w reaches update_player_elo:
\* in handle_match_completion when the winner was just set and the match did
\* not auto-confirm, in update_elo_on_confirmation when it was not just set.
ReachesElo(m, w) ==
  \/ Completes(m, w) /\ ~should_auto_confirm(m, w)
  \/ ~winner_just_set(m)

NoMail == [p \in Players |-> 0]

\* The record of an operation that saved no match
Plain(op, m, res) ==
  [op |-> op, match |-> m, winner_just_set |-> FALSE, auto_confirmed |-> FALSE,
   emailed |-> NoMail, raised |-> res.raised, applied |-> res.applied,
   rows_before |-> {}]

\* Match.save() of stored match m whose game rows are g, with the pre_save and
\* post_save handlers it triggers; op names the operation that saved it.
MatchSaveSteps(m, g, op) ==
  LET w == SavedWinner(m, g, winner[m])
      auto == Completes(m, w) /\ should_auto_confirm(m, w)
  IN \E res \in {IF ReachesElo(m, w) THEN update_player_elo(m, w) ELSE Untouched(FALSE)} :
     /\ winner' = [winner EXCEPT ![m] = w]
     /\ confirmations' =
          IF auto
          THEN [confirmations EXCEPT ![m] = @ \cup AutoConfirmRows(m)]
          ELSE confirmations
     /\ elo_rating' = res.elo_rating
     /\ elo_peak' = res.elo_peak
     /\ matches_for_elo' = res.matches_for_elo
     /\ elo_history' = res.elo_history
     /\ last' = [op |-> op, match |-> m,
                 winner_just_set |-> winner_just_set(m),
                 auto_confirmed |-> auto,
                 emailed |->
                   [p \in Players |->
                      IF Completes(m, w) /\ ~auto /\ p \in Participants(m)
                         /\ NeedsEmail(m, p)
                      THEN 1 ELSE 0],
                 raised |-> res.raised, applied |-> res.applied,
                 rows_before |-> confirmations[m]]

\* ------------------------------------------------------------------------
\* Operations
\* ------------------------------------------------------------------------
\* Game.save() of game n of match m with the scores sp (create or update),
\* followed by self.match.save()
GameSave(m, n, sp) ==
  LET old == IF n \in DOMAIN games[m] THEN games[m][n].winner ELSE NoTeam
      row == [team1_score |-> sp[1], team2_score |-> sp[2],
              winner |-> GameWinner(old, sp[1], sp[2])]
      g == [k \in (DOMAIN games[m]) \cup {n} |-> IF k = n THEN row ELSE games[m][k]]
  IN /\ m \in matches
     /\ games' = [games EXCEPT ![m] = g]
     /\ MatchSaveSteps(m, g, "game_save")
     /\ UNCHANGED <<account, matches, team1, team2, best_of, match_type, initial>>
     /\ UNCHANGED racevars
     /\ UNCHANGED storevars

\* Game.delete(): no handler is connected to it
GameDelete(m, n) ==
  /\ m \in matches
  /\ n \in DOMAIN games[m]
  /\ games' = [games EXCEPT ![m] = [k \in (DOMAIN games[m]) \ {n} |-> games[m][k]]]
  /\ last' = Plain("game_delete", m, Untouched(FALSE))
  /\ UNCHANGED <<account, elo_rating, elo_peak, matches_for_elo, matches, team1,
                 team2, best_of, match_type, winner, confirmations, elo_history,
                 initial>>
  /\ UNCHANGED racevars
  /\ UNCHANGED storevars

\* Match.save() of a stored match (MatchUpdateView, admin, match.save())
MatchSave(m) ==
  /\ m \in matches
  /\ MatchSaveSteps(m, games[m], "match_save")
  /\ UNCHANGED <<account, matches, team1, team2, best_of, match_type, games, initial>>
  /\ UNCHANGED racevars
  /\ UNCHANGED storevars

\* views.match_confirm by the account linked to player p
MatchConfirm(m, p) ==
  /\ m \in matches
  /\ account[p] # "none"
  /\ p \in Participants(m)
  /\ confirmations' = [confirmations EXCEPT ![m] = @ \cup {p}]
  /\ last' = [Plain("match_confirm", m, Untouched(FALSE))
                EXCEPT !.rows_before = confirmations[m]]
  /\ UNCHANGED <<account, elo_rating, elo_peak, matches_for_elo, matches, team1,
                 team2, best_of, match_type, winner, games, elo_history, initial>>
  /\ UNCHANGED racevars
  /\ UNCHANGED storevars

\* UserProfile.verify_email, admin manually_verify
VerifyEmail(p) ==
  /\ account[p] = "unverified"
  /\ account' = [account EXCEPT ![p] = "verified"]
  /\ last' = Plain("verify_email", 0, Untouched(FALSE))
  /\ UNCHANGED <<elo_rating, elo_peak, matches_for_elo, matches, team1, team2,
                 best_of, match_type, winner, games, confirmations, elo_history,
                 initial>>
  /\ UNCHANGED racevars
  /\ UNCHANGED storevars

\* update_player_elo(match) called on a freshly loaded match
CallUpdatePlayerElo(m) ==
  /\ m \in matches
  /\ \E res \in {update_player_elo(m, winner[m])} :
     /\ elo_rating' = res.elo_rating
     /\ elo_peak' = res.elo_peak
     /\ matches_for_elo' = res.matches_for_elo
     /\ elo_history' = res.elo_history
     /\ last' = Plain("update_player_elo", m, res)
     /\ UNCHANGED <<account, matches, team1, team2, best_of, match_type, winner,
                    games, confirmations, initial>>
     /\ UNCHANGED racevars
     /\ UNCHANGED storevars

\* ------------------------------------------------------------------------
\* Initial states: one stored match without games
\* ------------------------------------------------------------------------
NoGames == [n \in {} |-> 0]

DefaultRatings ==
  [elo_rating |-> [p \in Players |-> DefaultElo],
   elo_peak |-> [p \in Players |-> DefaultElo],
   matches_for_elo |-> [p \in Players |-> 0]]

PlayedRatings ==
  [elo_rating |-> (1 :> 1480 @@ 2 :> 1600 @@ 3 :> 1525),
   elo_peak |-> (1 :> 1500 @@ 2 :> 1610 @@ 3 :> 1525),
   matches_for_elo |-> (1 :> 19 @@ 2 :> 25 @@ 3 :> 20)]

\* The stored match and the rating fields of the players before it
SinglesSetups ==
  { [team1 |-> {1}, team2 |-> {2}, best_of |-> 1, match_type |-> "casual",
     ratings |-> DefaultRatings],
    [team1 |-> {1}, team2 |-> {2}, best_of |-> 3, match_type |-> "casual",
     ratings |-> PlayedRatings] }

DoublesSetups ==
  { [team1 |-> {1, 3}, team2 |-> {2}, best_of |-> 3, match_type |-> "tournament",
     ratings |-> PlayedRatings] }

MatchSetups == SinglesSetups \cup DoublesSetups

Idle == [op |-> "init", match |-> 0, winner_just_set |-> FALSE,
         auto_confirmed |-> FALSE, emailed |-> NoMail, raised |-> FALSE,
         applied |-> FALSE, rows_before |-> {}]

NoRows == [p \in {} |-> 0]

\* Match 1 stored with one of `setups`, accounts drawn from `accts`, the given
\* winners and confirmation sets, no games and no EloHistory rows
InitDB(setups, accts, winners, confirmed) ==
  /\ matches = {1}
  /\ \E s \in setups :
       /\ team1 = [m \in MatchIds |-> IF m = 1 THEN s.team1 ELSE {}]
       /\ team2 = [m \in MatchIds |-> IF m = 1 THEN s.team2 ELSE {}]
       /\ best_of = [m \in MatchIds |-> IF m = 1 THEN s.best_of ELSE 5]
       /\ match_type = [m \in MatchIds |-> IF m = 1 THEN s.match_type ELSE "casual"]
       /\ elo_rating = s.ratings.elo_rating
       /\ elo_peak = s.ratings.elo_peak
       /\ matches_for_elo = s.ratings.matches_for_elo
       /\ initial = s.ratings
  /\ account \in [Players -> Accounts]
  /\ \A p \in Players :
       /\ account[p] \in (IF p \in Participants(1) THEN accts ELSE {"none"})
       /\ account[p] = "verified_noemail" => p = 1
  /\ winner \in [MatchIds -> winners]
  /\ winner[2] = NoTeam
  /\ games = [m \in MatchIds |-> NoGames]
  /\ confirmations \in [MatchIds -> confirmed]
  /\ confirmations[2] = {}
  /\ confirmations[1] \subseteq Participants(1)
  /\ elo_history = {}
  /\ last = Idle

\* ------------------------------------------------------------------------
\* The Django cache (django.core.cache.cache) and pingpong/cache_utils.py
\* ------------------------------------------------------------------------
\* timeout=None: the entry never expires
NoExpiry == -1

\* The value of a key the cache does not hold
Absent == [present |-> FALSE, value |-> 0, timeout |-> 0]

Entry(v, timeout) == [present |-> TRUE, value |-> v, timeout |-> timeout]

\* Team rows are identified by their players
TeamIds == {s.team1 : s \in MatchSetups} \cup {s.team2 : s \in MatchSetups}

\* f'player_stats_{player.pk}', f'pending_matches_{player.pk}',
\* f'h2h_{min}_{max}', f'team_stats_{team.pk}' and the global keys
player_stats(p) == <<"player_stats", p>>
pending_matches(p) == <<"pending_matches", p>>
h2h(a, b) == <<"h2h", <<IF a < b THEN a ELSE b, IF a < b THEN b ELSE a>>>>
team_stats(t) == <<"team_stats", t>>
dashboard_total_players == <<"dashboard_total_players", 0>>
dashboard_total_matches == <<"dashboard_total_matches", 0>>
dashboard_recent_matches == <<"dashboard_recent_matches", 0>>
leaderboard_generation == <<"leaderboard_generation", 0>>

CacheKeys ==
  {player_stats(p) : p \in Players} \cup {pending_matches(p) : p \in Players}
    \cup {h2h(pr[1], pr[2]) : pr \in {x \in Players \X Players : x[1] < x[2]}}
    \cup {team_stats(t) : t \in TeamIds}
    \cup {dashboard_total_players, dashboard_total_matches,
          dashboard_recent_matches, leaderboard_generation}

EmptyCache == [k \in CacheKeys |-> Absent]

\* cache.set(key, value, timeout)
cache_set(c, k, v, timeout) == [c EXCEPT ![k] = Entry(v, timeout)]

\* cache.delete_many(keys)
cache_delete_many(c, keys) == [k \in CacheKeys |-> IF k \in keys THEN Absent ELSE c[k]]

\* cache.incr(key): ValueError when the key is absent, else the value grows
\* by one and keeps its expiry
cache_incr(c, k) ==
  IF c[k].present
  THEN [cache |-> [c EXCEPT ![k].value = @ + 1], ValueError |-> FALSE]
  ELSE [cache |-> c, ValueError |-> TRUE]

\* Faulty variant: the counter is created with the default timeout.
invalidate_leaderboard_expiring(c) ==
  IF cache_incr(c, leaderboard_generation).ValueError
  THEN cache_set(c, leaderboard_generation, 1, 300)
  ELSE cache_incr(c, leaderboard_generation).cache

\* invalidate_leaderboard(), run without interruption
invalidate_leaderboard(c) ==
  IF cache_incr(c, leaderboard_generation).ValueError
  THEN cache_set(c, leaderboard_generation, 1, NoExpiry)
  ELSE cache_incr(c, leaderboard_generation).cache

\* Faulty variant: the head-to-head key is left in the cache.
MatchKeysWithoutH2h(m) ==
  {player_stats(p) : p \in Participants(m)}
    \cup {pending_matches(p) : p \in Participants(m)}
    \cup {team_stats(team1[m]), team_stats(team2[m])}
    \cup {dashboard_total_players, dashboard_total_matches,
          dashboard_recent_matches}

\* keys_to_delete of invalidate_match_caches(match)
MatchKeys(m) ==
  {player_stats(p) : p \in Participants(m)}
    \cup {pending_matches(p) : p \in Participants(m)}
    \cup (IF Cardinality(team1[m]) = 1 /\ Cardinality(team2[m]) = 1
          THEN {h2h(a, b) : a \in team1[m], b \in team2[m]}
          ELSE {})
    \cup {team_stats(team1[m]), team_stats(team2[m])}
    \cup {dashboard_total_players, dashboard_total_matches,
          dashboard_recent_matches}

\* invalidate_match_caches(match)
invalidate_match_caches(c, m) ==
  cache_delete_many(invalidate_leaderboard(c), MatchKeys(m))

\* invalidate_player_caches(player)
invalidate_player_caches(c, p) ==
  cache_delete_many(invalidate_leaderboard(c),
                    {player_stats(p), pending_matches(p), dashboard_total_players})

NoConfirmationRows == [p \in Players |-> 0]

StoresIdle ==
  /\ cache = EmptyCache
  /\ confirmation_rows = NoConfirmationRows

RaceIdle(state) ==
  /\ pc = [q \in Procs |-> state]
  /\ snap = [q \in Procs |-> initial]
  /\ todo = [q \in Procs |-> <<>>]
  /\ wr = [q \in Procs |-> NoRows]
  /\ ins = [q \in Procs |-> {}]

Init ==
  /\ InitDB(MatchSetups, Accounts, {NoTeam}, {{}})
  /\ RaceIdle("idle")
  /\ StoresIdle

Next ==
  \/ \E m \in MatchIds, n \in GameNumbers, sp \in FormScores : GameSave(m, n, sp)
  \/ \E m \in MatchIds, n \in GameNumbers : GameDelete(m, n)
  \/ \E m \in MatchIds : MatchSave(m)
  \/ \E m \in MatchIds, p \in Players : MatchConfirm(m, p)
  \/ \E p \in Players : VerifyEmail(p)
  \/ \E m \in MatchIds : CallUpdatePlayerElo(m)

Spec == Init /\ [][Next]_vars

\* Game saves with any scores, ties included, on a singles match
InitGames ==
  /\ InitDB(SinglesSetups, {"unverified", "verified"}, {NoTeam}, {{}})
  /\ RaceIdle("idle")
  /\ StoresIdle

NextGames ==
  \/ \E m \in MatchIds, n \in GameNumbers, sp \in AnyScores : GameSave(m, n, sp)
  \/ \E m \in MatchIds, n \in GameNumbers : GameDelete(m, n)
  \/ \E m \in MatchIds : MatchSave(m)
  \/ \E m \in MatchIds, p \in Players : MatchConfirm(m, p)

SpecGames == InitGames /\ [][NextGames]_vars

\* ------------------------------------------------------------------------
\* update_player_elo run by concurrent invocations, statement by statement,
\* on a database with READ COMMITTED transactions: a statement sees committed
\* rows and the rows of its own transaction; an UPDATE waits for the row lock
\* of another open transaction; an INSERT conflicting with a committed row
\* raises IntegrityError, one conflicting with an uncommitted row waits.
\* ------------------------------------------------------------------------
\* Players of match m in the order the two loops visit them
RECURSIVE InOrder(_)
InOrder(ps) ==
  IF ps = {} THEN <<>>
  ELSE LET x == CHOOSE y \in ps : \A z \in ps : y <= z
       IN <<x>> \o InOrder(ps \ {x})

UpdateOrder(m) == InOrder(team1[m]) \o InOrder(team2[m])

\* lines 65-76: the guards on the winner and on match_confirmed
RaceGuards(q, m) ==
  /\ pc[q] = "call"
  /\ pc' = [pc EXCEPT ![q] =
              IF winner[m] = NoTeam \/ ~match_confirmed(m) THEN "skipped" ELSE "check"]
  /\ UNCHANGED storevars
  /\ UNCHANGED <<account, elo_rating, elo_peak, matches_for_elo, matches, team1,
                 team2, best_of, match_type, winner, games, confirmations,
                 elo_history, last, initial, snap, todo, wr, ins>>

\* lines 78-81: EloHistory.objects.filter(match=match).exists()
RaceCheck(q, m) ==
  /\ pc[q] = "check"
  /\ pc' = [pc EXCEPT ![q] = IF AlreadyRated(m) THEN "skipped" ELSE "read1"]
  /\ UNCHANGED storevars
  /\ UNCHANGED <<account, elo_rating, elo_peak, matches_for_elo, matches, team1,
                 team2, best_of, match_type, winner, games, confirmations,
                 elo_history, last, initial, snap, todo, wr, ins>>

\* The Player objects of the players ps as loaded now, added to those loaded
Loaded(q, ps) ==
  [elo_rating |-> [p \in Players |->
                     IF p \in ps THEN elo_rating[p] ELSE snap[q].elo_rating[p]],
   elo_peak |-> [p \in Players |->
                   IF p \in ps THEN elo_peak[p] ELSE snap[q].elo_peak[p]],
   matches_for_elo |-> [p \in Players |->
                          IF p \in ps THEN matches_for_elo[p]
                          ELSE snap[q].matches_for_elo[p]]]

\* line 86: team1_players = list(match.team1.players.all())
RaceRead1(q, m) ==
  /\ pc[q] = "read1"
  /\ snap' = [snap EXCEPT ![q] = Loaded(q, team1[m])]
  /\ pc' = [pc EXCEPT ![q] = "read2"]
  /\ UNCHANGED storevars
  /\ UNCHANGED <<account, elo_rating, elo_peak, matches_for_elo, matches, team1,
                 team2, best_of, match_type, winner, games, confirmations,
                 elo_history, last, initial, todo, wr, ins>>

\* line 87: team2_players = list(match.team2.players.all())
RaceRead2(q, m) ==
  /\ pc[q] = "read2"
  /\ snap' = [snap EXCEPT ![q] = Loaded(q, team2[m])]
  /\ todo' = [todo EXCEPT ![q] = UpdateOrder(m)]
  /\ pc' = [pc EXCEPT ![q] = "save"]
  /\ UNCHANGED storevars
  /\ UNCHANGED <<account, elo_rating, elo_peak, matches_for_elo, matches, team1,
                 team2, best_of, match_type, winner, games, confirmations,
                 elo_history, last, initial, wr, ins>>

\* Another open transaction holds the row lock of player p
RowLocked(q, p) == \E o \in Procs \ {q} : p \in DOMAIN wr[o]

\* lines 128-132 and 146-150: p.save(update_fields=[...]) for the next player
RaceSave(q, m) ==
  /\ pc[q] = "save"
  /\ LET p == Head(todo[q])
     IN /\ ~RowLocked(q, p)
        /\ wr' = [wr EXCEPT ![q] =
                    [x \in (DOMAIN wr[q]) \cup {p} |->
                       IF x = p
                       THEN PlayerAfter(m, p, winner[m], snap[q].elo_rating,
                                        snap[q].elo_peak, snap[q].matches_for_elo)
                       ELSE wr[q][x]]]
  /\ pc' = [pc EXCEPT ![q] = "create"]
  /\ UNCHANGED storevars
  /\ UNCHANGED <<account, elo_rating, elo_peak, matches_for_elo, matches, team1,
                 team2, best_of, match_type, winner, games, confirmations,
                 elo_history, last, initial, snap, todo, ins>>

\* Another open transaction has inserted an EloHistory row for (m, p)
InsertPending(q, m, p) ==
  \E o \in Procs \ {q} : \E h \in ins[o] : h.match = m /\ h.player = p

\* lines 135-142 and 153-160: EloHistory.objects.create(...) for that player;
\* on IntegrityError the atomic block rolls back and the exception propagates
RaceCreate(q, m) ==
  /\ pc[q] = "create"
  /\ LET p == Head(todo[q])
     IN /\ ~InsertPending(q, m, p)
        /\ IF HistoryConflict(m, p)
           THEN /\ wr' = [wr EXCEPT ![q] = NoRows]
                /\ ins' = [ins EXCEPT ![q] = {}]
                /\ todo' = [todo EXCEPT ![q] = <<>>]
                /\ pc' = [pc EXCEPT ![q] = "raised"]
           ELSE /\ ins' = [ins EXCEPT ![q] =
                             @ \cup {HistoryRow(m, p, winner[m], snap[q].elo_rating,
                                                snap[q].matches_for_elo)}]
                /\ todo' = [todo EXCEPT ![q] = Tail(@)]
                /\ pc' = [pc EXCEPT ![q] =
                            IF Tail(todo[q]) = <<>> THEN "commit" ELSE "save"]
                /\ UNCHANGED wr
  /\ UNCHANGED storevars
  /\ UNCHANGED <<account, elo_rating, elo_peak, matches_for_elo, matches, team1,
                 team2, best_of, match_type, winner, games, confirmations,
                 elo_history, last, initial, snap>>

\* leaving the with transaction.atomic() block: commit
RaceCommit(q) ==
  /\ pc[q] = "commit"
  /\ elo_rating' = [p \in Players |->
                      IF p \in DOMAIN wr[q] THEN wr[q][p].elo_rating ELSE elo_rating[p]]
  /\ elo_peak' = [p \in Players |->
                    IF p \in DOMAIN wr[q] THEN wr[q][p].elo_peak ELSE elo_peak[p]]
  /\ matches_for_elo' = [p \in Players |->
                           IF p \in DOMAIN wr[q] THEN wr[q][p].matches_for_elo
                           ELSE matches_for_elo[p]]
  /\ elo_history' = elo_history \cup ins[q]
  /\ wr' = [wr EXCEPT ![q] = NoRows]
  /\ ins' = [ins EXCEPT ![q] = {}]
  /\ pc' = [pc EXCEPT ![q] = "done"]
  /\ UNCHANGED storevars
  /\ UNCHANGED <<account, matches, team1, team2, best_of, match_type, winner,
                 games, confirmations, last, initial, snap, todo>>

\* Two invocations of update_player_elo(match 1); the match has any winner
\* and either no confirmation rows or one for every participant
InitRace ==
  /\ InitDB(MatchSetups, {"none", "verified"}, Teams \cup {NoTeam},
            {{}, {1, 2}, {1, 2, 3}})
  /\ RaceIdle("call")
  /\ StoresIdle

NextRace ==
  \/ \E q \in Procs : RaceGuards(q, 1)
  \/ \E q \in Procs : RaceCheck(q, 1)
  \/ \E q \in Procs : RaceRead1(q, 1)
  \/ \E q \in Procs : RaceRead2(q, 1)
  \/ \E q \in Procs : RaceSave(q, 1)
  \/ \E q \in Procs : RaceCreate(q, 1)
  \/ \E q \in Procs : RaceCommit(q)

SpecRace == InitRace /\ [][NextRace]_vars

\* ------------------------------------------------------------------------
\* management/commands/recalculate_elo.py
\* ------------------------------------------------------------------------
\* The fields of Match
MatchFields ==
  {"id", "is_double", "team1", "team2", "championship", "date_played", "location",
   "match_type", "best_of", "winner", "confirmations", "notes", "created_at",
   "updated_at"}

\* The fields named by Match.objects.filter(winner__isnull=False,
\* player1_confirmed=True, player2_confirmed=True)
FilterFields == {"winner", "player1_confirmed", "player2_confirmed"}

\* QuerySet.filter resolves its keywords when it is called and raises
\* FieldError for a keyword that is not a field
FilterRaises == ~(FilterFields \subseteq MatchFields)

\* Faulty variant: the reset and the deletion run before the matches are
\* selected and outside the transaction
recalculate_elo_reset_first(dry_run) ==
  IF dry_run
  THEN Untouched(FilterRaises)
  ELSE [elo_rating |-> [p \in Players |-> DefaultElo],
        elo_peak |-> [p \in Players |-> DefaultElo],
        matches_for_elo |-> [p \in Players |-> 0],
        elo_history |-> {},
        applied |-> FALSE, raised |-> FilterRaises]

\* Faulty variant: the dry_run option is not looked at
recalculate_elo_always_writes(dry_run) ==
  [elo_rating |-> [p \in Players |-> DefaultElo],
   elo_peak |-> [p \in Players |-> DefaultElo],
   matches_for_elo |-> [p \in Players |-> 0],
   elo_history |-> {},
   applied |-> FALSE, raised |-> FilterRaises]

\* Command.handle: the queryset of line 32 is built before the dry_run test
\* and before the transaction; FieldError leaves handle at that line
recalculate_elo(dry_run) == Untouched(FilterRaises)

\* manage.py recalculate_elo [--dry-run]
RecalculateElo(dry_run) ==
  /\ \E res \in {recalculate_elo(dry_run)} :
       /\ elo_rating' = res.elo_rating
       /\ elo_peak' = res.elo_peak
       /\ matches_for_elo' = res.matches_for_elo
       /\ elo_history' = res.elo_history
       /\ last' = Plain(IF dry_run THEN "recalculate_elo_dry_run" ELSE "recalculate_elo",
                        0, res)
  /\ UNCHANGED <<account, matches, team1, team2, best_of, match_type, winner,
                 games, confirmations, initial>>
  /\ UNCHANGED racevars
  /\ UNCHANGED storevars

\* Two stored matches sharing players, created in the order 1, 2 (date_played
\* and created_at default to the time of creation), all players at the
\* default ratings
InitSeason ==
  /\ matches = {1, 2}
  /\ team1 = <<{1}, {1, 3}>>
  /\ team2 = <<{2}, {2}>>
  /\ best_of = <<1, 1>>
  /\ match_type = <<"casual", "tournament">>
  /\ elo_rating = DefaultRatings.elo_rating
  /\ elo_peak = DefaultRatings.elo_peak
  /\ matches_for_elo = DefaultRatings.matches_for_elo
  /\ initial = DefaultRatings
  /\ account \in [Players -> {"none", "verified"}]
  /\ account[3] = "none"
  /\ winner = [m \in MatchIds |-> NoTeam]
  /\ games = [m \in MatchIds |-> NoGames]
  /\ confirmations = [m \in MatchIds |-> {}]
  /\ elo_history = {}
  /\ last = Idle
  /\ RaceIdle("idle")
  /\ StoresIdle

NextSeason ==
  \/ \E m \in MatchIds, sp \in FormScores : GameSave(m, 1, sp)
  \/ \E m \in MatchIds : MatchSave(m)
  \/ \E m \in MatchIds, p \in Players : MatchConfirm(m, p)
  \/ \E m \in MatchIds : CallUpdatePlayerElo(m)
  \/ \E dry_run \in BOOLEAN : RecalculateElo(dry_run)

SpecSeason == InitSeason /\ [][NextSeason]_vars

\* ------------------------------------------------------------------------
\* A non-dry-run recalculate_elo (invocation "b") next to an
\* update_player_elo(match 1) triggered by a save (invocation "a")
\* ------------------------------------------------------------------------
\* Command.handle: it leaves at line 32 without having sent a statement to
\* the database
RaceRecalculate(q) ==
  /\ pc[q] = "recalc"
  /\ \E res \in {recalculate_elo(FALSE)} :
       /\ elo_rating' = res.elo_rating
       /\ elo_peak' = res.elo_peak
       /\ matches_for_elo' = res.matches_for_elo
       /\ elo_history' = res.elo_history
       /\ pc' = [pc EXCEPT ![q] = IF res.raised THEN "raised" ELSE "done"]
  /\ UNCHANGED storevars
  /\ UNCHANGED <<account, matches, team1, team2, best_of, match_type, winner,
                 games, confirmations, last, initial, snap, todo, wr, ins>>

InitReplayRace ==
  /\ InitDB(MatchSetups, {"none", "verified"}, Teams \cup {NoTeam},
            {{}, {1, 2}, {1, 2, 3}})
  /\ pc = [q \in Procs |-> IF q = "a" THEN "call" ELSE "recalc"]
  /\ StoresIdle
  /\ snap = [q \in Procs |-> initial]
  /\ todo = [q \in Procs |-> <<>>]
  /\ wr = [q \in Procs |-> NoRows]
  /\ ins = [q \in Procs |-> {}]

NextReplayRace ==
  \/ RaceGuards("a", 1)
  \/ RaceCheck("a", 1)
  \/ RaceRead1("a", 1)
  \/ RaceRead2("a", 1)
  \/ RaceSave("a", 1)
  \/ RaceCreate("a", 1)
  \/ RaceCommit("a")
  \/ RaceRecalculate("b")

SpecReplayRace == InitReplayRace /\ [][NextReplayRace]_vars

\* ------------------------------------------------------------------------
\* update_player_elo run concurrently for two eligible matches that share
\* players: invocation "a" rates match 1, invocation "b" match 2
\* ------------------------------------------------------------------------
RaceMatch == [q \in Procs |-> IF q = "a" THEN 1 ELSE 2]

InitSharedRace ==
  /\ matches = {1, 2}
  /\ team1 = <<{1}, {1, 3}>>
  /\ team2 = <<{2}, {2}>>
  /\ best_of = <<1, 1>>
  /\ match_type = <<"casual", "tournament">>
  /\ \E r \in {DefaultRatings, PlayedRatings} :
       /\ elo_rating = r.elo_rating
       /\ elo_peak = r.elo_peak
       /\ matches_for_elo = r.matches_for_elo
       /\ initial = r
  /\ account \in [Players -> {"none", "verified"}]
  /\ winner \in [MatchIds -> Teams]
  /\ games = [m \in MatchIds |-> NoGames]
  /\ confirmations = [m \in MatchIds |-> team1[m] \cup team2[m]]
  /\ elo_history = {}
  /\ last = Idle
  /\ RaceIdle("call")
  /\ StoresIdle

NextSharedRace ==
  \/ \E q \in Procs : RaceGuards(q, RaceMatch[q])
  \/ \E q \in Procs : RaceCheck(q, RaceMatch[q])
  \/ \E q \in Procs : RaceRead1(q, RaceMatch[q])
  \/ \E q \in Procs : RaceRead2(q, RaceMatch[q])
  \/ \E q \in Procs : RaceSave(q, RaceMatch[q])
  \/ \E q \in Procs : RaceCreate(q, RaceMatch[q])
  \/ \E q \in Procs : RaceCommit(q)

SpecSharedRace == InitSharedRace /\ [][NextSharedRace]_vars

\* ------------------------------------------------------------------------
\* Concurrent writers of MatchConfirmation for match 1: match_confirm
\* (get_or_create) and the auto-confirm step of handle_match_completion
\* (bulk_create with ignore_conflicts), statement by statement
\* ------------------------------------------------------------------------
\* The player whose account calls match_confirm
Confirmer == 1

\* Faulty variant: the table has no unique (match, player) constraint.
InsertConfirmationUnconstrained(rows, p) ==
  [rows |-> [rows EXCEPT ![p] = @ + 1], IntegrityError |-> FALSE]

\* INSERT of a MatchConfirmation row for (match 1, p) under
\* unique_together = ('match', 'player')
InsertConfirmation(rows, p) ==
  IF rows[p] > 0
  THEN [rows |-> rows, IntegrityError |-> TRUE]
  ELSE [rows |-> [rows EXCEPT ![p] = 1], IntegrityError |-> FALSE]

\* The players with at least one row
Support(rows) == {p \in Players : rows[p] > 0}

ConfirmStep(q, rows, to) ==
  /\ confirmation_rows' = rows
  /\ confirmations' = [confirmations EXCEPT ![1] = Support(rows)]
  /\ pc' = [pc EXCEPT ![q] = to]
  /\ last' = [Plain("match_confirm", 1, Untouched(to = "raised"))
                EXCEPT !.rows_before = confirmations[1]]
  /\ UNCHANGED <<account, elo_rating, elo_peak, matches_for_elo, matches, team1,
                 team2, best_of, match_type, winner, games, elo_history, initial,
                 snap, todo, wr, ins, cache>>

\* get_or_create: self.get(match=match, player=user_player)
ConfirmGet(q) ==
  /\ pc[q] = "get"
  /\ ConfirmStep(q, confirmation_rows,
                 IF confirmation_rows[Confirmer] = 1 THEN "done"
                 ELSE IF confirmation_rows[Confirmer] = 0 THEN "create"
                 ELSE "raised")

\* get_or_create: self.create(...) in a savepoint, IntegrityError caught
ConfirmCreate(q) ==
  /\ pc[q] = "create"
  /\ \E res \in {InsertConfirmation(confirmation_rows, Confirmer)} :
       ConfirmStep(q, res.rows, IF res.IntegrityError THEN "reget" ELSE "done")

\* get_or_create: the second self.get(...) after the IntegrityError
ConfirmReget(q) ==
  /\ pc[q] = "reget"
  /\ ConfirmStep(q, confirmation_rows,
                 IF confirmation_rows[Confirmer] = 1 THEN "done" ELSE "raised")

RECURSIVE BulkInsert(_, _)
\* the rows after inserting one row per player of ps, conflicts ignored
BulkInsert(rows, ps) ==
  IF ps = {} THEN rows
  ELSE LET p == CHOOSE x \in ps : TRUE
       IN BulkInsert(InsertConfirmation(rows, p).rows, ps \ {p})

\* handle_match_completion step 1: bulk_create(..., ignore_conflicts=True)
BulkCreate(q) ==
  /\ pc[q] = "bulk"
  /\ ConfirmStep(q, BulkInsert(confirmation_rows, AutoConfirmRows(1)), "done")

\* Two writers; each is a match_confirm by the Confirmer or the auto-confirm
\* of a save that has just set the winner
InitConfirmRace ==
  /\ InitDB(MatchSetups, {"none", "unverified", "verified"}, Teams \cup {NoTeam},
            {{}, {1}})
  /\ winner[1] # NoTeam
  /\ account[Confirmer] # "none"
  /\ pc \in [Procs -> {"get", "bulk"}]
  /\ (\E q \in Procs : pc[q] = "bulk") => \E t \in Teams : \A p \in TeamPlayers(1, t) : ~Verified(p)
  /\ snap = [q \in Procs |-> initial]
  /\ todo = [q \in Procs |-> <<>>]
  /\ wr = [q \in Procs |-> NoRows]
  /\ ins = [q \in Procs |-> {}]
  /\ cache = EmptyCache
  /\ confirmation_rows = [p \in Players |-> IF p \in confirmations[1] THEN 1 ELSE 0]

NextConfirmRace ==
  \/ \E q \in Procs : ConfirmGet(q)
  \/ \E q \in Procs : ConfirmCreate(q)
  \/ \E q \in Procs : ConfirmReget(q)
  \/ \E q \in Procs : BulkCreate(q)

SpecConfirmRace == InitConfirmRace /\ [][NextConfirmRace]_vars

\* ------------------------------------------------------------------------
\* The cache next to the pipeline: the functions of cache_utils.py, the
\* warm_cache command, the pingpong_context context processor and the saves
\* ------------------------------------------------------------------------
Generation(c) == IF c[leaderboard_generation].present
                 THEN c[leaderboard_generation].value ELSE 0

PresentKeys(c) == {k \in CacheKeys : c[k].present}

CacheOp(op, m, c, raised) ==
  /\ cache' = c
  /\ last' = [Plain(op, m, Untouched(raised)) EXCEPT !.rows_before = PresentKeys(cache)]
  /\ UNCHANGED <<account, elo_rating, elo_peak, matches_for_elo, matches, team1,
                 team2, best_of, match_type, winner, games, confirmations,
                 elo_history, initial, confirmation_rows>>
  /\ UNCHANGED racevars

InvalidateMatchCaches(m) ==
  /\ m \in matches
  /\ Generation(cache) < MaxGeneration
  /\ CacheOp("invalidate_match_caches", m, invalidate_match_caches(cache, m), FALSE)

InvalidatePlayerCaches(p) ==
  /\ Generation(cache) < MaxGeneration
  /\ CacheOp("invalidate_player_caches", p, invalidate_player_caches(cache, p), FALSE)

InvalidateLeaderboard ==
  /\ Generation(cache) < MaxGeneration
  /\ CacheOp("invalidate_leaderboard", 0, invalidate_leaderboard(cache), FALSE)

\* invalidate_all_caches(): cache.clear()
InvalidateAllCaches ==
  /\ cache # EmptyCache
  /\ CacheOp("invalidate_all_caches", 0, EmptyCache, FALSE)

\* warm_cache: the player count is cached (line 16), then the filter on
\* is_confirmed, which is not a field of Match, raises FieldError (line 20)
WarmCache ==
  CacheOp("warm_cache", 0,
          cache_set(cache, dashboard_total_players, Cardinality(Players), 900),
          ~("is_confirmed" \in MatchFields))

\* pingpong_context for the account of player p: a hit returns the cached
\* count; a miss runs the filter on is_confirmed, which raises before cache.set
PendingMatchesContext(p) ==
  /\ account[p] # "none"
  /\ CacheOp("pingpong_context", p, cache,
             ~cache[pending_matches(p)].present /\ ~("is_confirmed" \in MatchFields))

\* Player.save() from a form or the admin: no handler is connected to it
PlayerSave(p) ==
  CacheOp("player_save", p, cache, FALSE)

\* Cache contents at the start: nothing or every key; leaderboard_generation
\* absent or a counter without expiry
InitCaches ==
  LET EntryKeys == CacheKeys \ {leaderboard_generation}
      Held == {{}, EntryKeys}
      Counters == {Absent} \cup {Entry(v, NoExpiry) : v \in 1..(MaxGeneration - 1)}
  IN {[k \in CacheKeys |->
         IF k = leaderboard_generation THEN g
         ELSE IF k \in S THEN Entry(1, 600) ELSE Absent] : S \in Held, g \in Counters}

InitCache ==
  /\ InitDB(MatchSetups, {"verified"}, {NoTeam}, {{}})
  /\ RaceIdle("idle")
  /\ cache \in InitCaches
  /\ confirmation_rows = NoConfirmationRows

NextCache ==
  \/ \E m \in MatchIds : InvalidateMatchCaches(m)
  \/ \E p \in Players : InvalidatePlayerCaches(p)
  \/ InvalidateLeaderboard
  \/ InvalidateAllCaches
  \/ WarmCache
  \/ \E p \in Players : PendingMatchesContext(p)
  \/ \E p \in Players : PlayerSave(p)
  \/ \E sp \in FormScores : GameSave(1, 1, sp)
  \/ \E p \in Players : MatchConfirm(1, p)
  \/ MatchSave(1)

SpecCache == InitCache /\ [][NextCache]_vars

\* ------------------------------------------------------------------------
\* Concurrent calls of invalidate_leaderboard(), statement by statement
\* ------------------------------------------------------------------------
\* line 73: cache.incr('leaderboard_generation'); ValueError leads to line 75
LeaderboardIncr(q) ==
  /\ pc[q] = "incr"
  /\ Generation(cache) < MaxGeneration
  /\ \E res \in {cache_incr(cache, leaderboard_generation)} :
       /\ cache' = res.cache
       /\ pc' = [pc EXCEPT ![q] = IF res.ValueError THEN "set" ELSE "incr"]
  /\ last' = Plain("invalidate_leaderboard", 0, Untouched(FALSE))
  /\ UNCHANGED <<account, elo_rating, elo_peak, matches_for_elo, matches, team1,
                 team2, best_of, match_type, winner, games, confirmations,
                 elo_history, initial, snap, todo, wr, ins, confirmation_rows>>

\* line 75: cache.set('leaderboard_generation', 1, timeout=None)
LeaderboardSet(q) ==
  /\ pc[q] = "set"
  /\ cache' = cache_set(cache, leaderboard_generation, 1, NoExpiry)
  /\ pc' = [pc EXCEPT ![q] = "incr"]
  /\ last' = Plain("invalidate_leaderboard", 0, Untouched(FALSE))
  /\ UNCHANGED <<account, elo_rating, elo_peak, matches_for_elo, matches, team1,
                 team2, best_of, match_type, winner, games, confirmations,
                 elo_history, initial, snap, todo, wr, ins, confirmation_rows>>

InitGenerationRace ==
  /\ InitDB(MatchSetups, {"verified"}, {NoTeam}, {{}})
  /\ RaceIdle("incr")
  /\ cache \in InitCaches
  /\ confirmation_rows = NoConfirmationRows

NextGenerationRace ==
  \/ \E q \in Procs : LeaderboardIncr(q)
  \/ \E q \in Procs : LeaderboardSet(q)

SpecGenerationRace == InitGenerationRace /\ [][NextGenerationRace]_vars

\* ------------------------------------------------------------------------
\* The saves run with a current user: CurrentUserMiddleware stores
\* request.user in thread-local storage and the default managers of Match and
\* Game (managers.py) filter by it
\* ------------------------------------------------------------------------
\* get_current_user(): absent (no request), a staff user, a regular user whose
\* player is or is not in the match, an anonymous user
CurrentUsers == {"absent", "staff", "participant", "non_participant", "anonymous"}

\* MatchManager.get_queryset / GameManager.get_queryset: every row, no row,
\* or the FieldError of filtering on player1/player2, which are properties of
\* Match and not fields
Visibility(user) ==
  IF user \in {"absent", "staff"} THEN "all"
  ELSE IF user = "anonymous" THEN "none"
  ELSE IF {"player1", "player2"} \subseteq MatchFields THEN "own"
  ELSE "raises"

\* Match.save() of stored match m under the current user: self.games and
\* sender.objects go through the filtering managers
MatchSaveStepsAs(user, m, g, op) ==
  IF Visibility(user) = "all" \/ (Visibility(user) = "own" /\ user = "participant")
  THEN MatchSaveSteps(m, g, op)
  ELSE IF Visibility(user) = "raises"
  THEN \* self.games.filter(...) raises before super().save()
       /\ last' = [Plain(op, m, Untouched(TRUE)) EXCEPT !.rows_before = confirmations[m]]
       /\ UNCHANGED <<winner, confirmations, elo_rating, elo_peak, matches_for_elo,
                      elo_history>>
  ELSE \* no game and no match is visible: both win counts are 0, the pre_save
       \* handler gets DoesNotExist and sets _winner_just_set = False, and
       \* update_elo_on_confirmation calls update_player_elo
       \E res \in {update_player_elo(m, winner[m])} :
         /\ elo_rating' = res.elo_rating
         /\ elo_peak' = res.elo_peak
         /\ matches_for_elo' = res.matches_for_elo
         /\ elo_history' = res.elo_history
         /\ last' = [Plain(op, m, res) EXCEPT !.rows_before = confirmations[m]]
         /\ UNCHANGED <<winner, confirmations>>

\* Game.save() under the current user: the row is written through the base
\* manager, then self.match.save()
GameSaveAs(user, m, n, sp) ==
  LET old == IF n \in DOMAIN games[m] THEN games[m][n].winner ELSE NoTeam
      row == [team1_score |-> sp[1], team2_score |-> sp[2],
              winner |-> GameWinner(old, sp[1], sp[2])]
      g == [k \in (DOMAIN games[m]) \cup {n} |-> IF k = n THEN row ELSE games[m][k]]
  IN /\ m \in matches
     /\ games' = [games EXCEPT ![m] = g]
     /\ MatchSaveStepsAs(user, m, g, "game_save")
     /\ UNCHANGED <<account, matches, team1, team2, best_of, match_type, initial>>
     /\ UNCHANGED racevars
     /\ UNCHANGED storevars

\* Match.save() of a stored match under the current user
MatchSaveAs(user, m) ==
  /\ m \in matches
  /\ MatchSaveStepsAs(user, m, games[m], "match_save")
  /\ UNCHANGED <<account, matches, team1, team2, best_of, match_type, games, initial>>
  /\ UNCHANGED racevars
  /\ UNCHANGED storevars

InitActor ==
  /\ InitDB(MatchSetups, {"none", "verified"}, {NoTeam}, {{}})
  /\ RaceIdle("idle")
  /\ StoresIdle

NextActor ==
  \/ \E user \in CurrentUsers, m \in MatchIds, n \in GameNumbers, sp \in FormScores :
       GameSaveAs(user, m, n, sp)
  \/ \E user \in CurrentUsers, m \in MatchIds : MatchSaveAs(user, m)
  \/ \E m \in MatchIds, p \in Players : MatchConfirm(m, p)

SpecActor == InitActor /\ [][NextActor]_vars

\* ------------------------------------------------------------------------
\* calculate_k_factor over its inputs: a confirmed singles match of any type
\* and length, players on both sides of the new-player threshold
\* ------------------------------------------------------------------------
InitKFactor ==
  /\ matches = {1}
  /\ team1 = [m \in MatchIds |-> IF m = 1 THEN {1} ELSE {}]
  /\ team2 = [m \in MatchIds |-> IF m = 1 THEN {2} ELSE {}]
  /\ best_of \in [MatchIds -> {1, 3, 5, 7}]
  /\ best_of[2] = 5
  /\ match_type \in [MatchIds -> {"casual", "practice", "tournament"}]
  /\ match_type[2] = "casual"
  /\ elo_rating = DefaultRatings.elo_rating
  /\ elo_peak = DefaultRatings.elo_peak
  /\ matches_for_elo \in [Players -> {0, NewPlayerMatches - 1, NewPlayerMatches,
                                      NewPlayerMatches + 5}]
  /\ matches_for_elo[3] = 0
  /\ initial = [elo_rating |-> elo_rating, elo_peak |-> elo_peak,
                matches_for_elo |-> matches_for_elo]
  /\ account = [p \in Players |-> "none"]
  /\ winner \in [MatchIds -> Teams \cup {NoTeam}]
  /\ winner[1] # NoTeam
  /\ winner[2] = NoTeam
  /\ games = [m \in MatchIds |-> NoGames]
  /\ confirmations = [m \in MatchIds |-> {}]
  /\ elo_history = {}
  /\ last = Idle
  /\ RaceIdle("idle")
  /\ StoresIdle

NextKFactor == CallUpdatePlayerElo(1)

SpecKFactor == InitKFactor /\ [][NextKFactor]_vars

\* ------------------------------------------------------------------------
\* Properties
\* ------------------------------------------------------------------------
RatingState == <<elo_rating, elo_peak, matches_for_elo, elo_history>>

SaveOps == {"game_save", "match_save"}

RowsOf(m, p) == {h \in elo_history : h.match = m /\ h.player = p}

\* C1: once EloHistory rows exist for a match, every further run of
\* update_player_elo on it (called directly or reached from a save) leaves
\* elo_rating, elo_peak, matches_for_elo and the EloHistory rows unchanged.
C1_Idempotent ==
  [][\A m \in matches :
       (/\ \E h \in elo_history : h.match = m
        /\ last'.match = m
        /\ last'.op \in SaveOps \cup {"update_player_elo"})
       => UNCHANGED RatingState]_vars

C1_Witness ==
  /\ last.op = "update_player_elo"
  /\ \E h \in elo_history : h.match = last.match
  /\ ~last.applied
  /\ ~last.raised

\* The committed result of exactly one application to match m, counted from
\* the ratings the players had before any invocation
SingleApplication(m) ==
  \A p \in Participants(m) :
    /\ elo_rating[p] =
         initial.elo_rating[p]
           + SideChange(m, SideOf(m, p), winner[m], initial.elo_rating,
                        initial.matches_for_elo)
    /\ matches_for_elo[p] = initial.matches_for_elo[p] + 1
    /\ Cardinality(RowsOf(m, p)) = 1

\* C2: when two concurrent invocations of update_player_elo on the same
\* eligible match have both ended, whatever the interleaving, each participant
\* has moved by exactly one side delta, matches_for_elo has grown by exactly 1
\* and there is exactly one EloHistory row per (match, player).
C2_RaceAppliesOnce ==
  (/\ winner[1] # NoTeam
   /\ match_confirmed(1)
   /\ \A q \in Procs : pc[q] \in {"done", "skipped", "raised"})
  => SingleApplication(1)

\* both invocations passed the "already calculated" check and one lost at
\* its insert
C2_Witness ==
  /\ winner[1] # NoTeam
  /\ match_confirmed(1)
  /\ \E q \in Procs : pc[q] = "done"
  /\ \E q \in Procs : pc[q] = "raised"
  /\ SingleApplication(1)

\* C3: update_player_elo run on a match without a winner, or one that is not
\* match_confirmed (called directly, or by the handlers of a save that leaves
\* the match so), returns without raising and leaves the rating fields and
\* the EloHistory rows unchanged.
C3_NoOpWhenNotEligible ==
  [][\A m \in matches :
       (/\ last'.op \in SaveOps \cup {"update_player_elo"}
        /\ last'.match = m
        /\ (winner'[m] = NoTeam \/ ~(team1_confirmed(m) /\ team2_confirmed(m))'))
       => (UNCHANGED RatingState /\ ~last'.raised /\ ~last'.applied)]_vars

C3_Witness ==
  /\ last.op = "update_player_elo"
  /\ last.match \in matches
  /\ winner[last.match] # NoTeam
  /\ ~match_confirmed(last.match)
  /\ elo_history = {}

\* C4: after a Game save or a match_confirm request that leaves the match
\* with a winner and match_confirmed, the match has exactly one EloHistory row
\* per participant.
C4_RatedWhenConfirmed ==
  \A m \in matches :
    (/\ last.match = m
     /\ last.op \in {"game_save", "match_confirm"}
     /\ winner[m] # NoTeam
     /\ match_confirmed(m))
    => \A p \in Participants(m) : Cardinality(RowsOf(m, p)) = 1

\* C5: after any Game save, if team1 has at least floor(best_of/2) + 1 game
\* wins the match winner is team1, otherwise if team2 has that many it is
\* team2.
C5_WinnerAtThreshold ==
  \A m \in matches :
    (last.op = "game_save" /\ last.match = m)
    => LET need == (best_of[m] \div 2) + 1
           won1 == Cardinality({n \in DOMAIN games[m] : games[m][n].winner = "team1"})
           won2 == Cardinality({n \in DOMAIN games[m] : games[m][n].winner = "team2"})
       IN /\ won1 >= need => winner[m] = "team1"
          /\ (won1 < need /\ won2 >= need) => winner[m] = "team2"

\* a best-of-3 match decided for team2 by its second game win
C5_Witness ==
  /\ last.op = "game_save"
  /\ last.match \in matches
  /\ best_of[last.match] = 3
  /\ Cardinality({n \in DOMAIN games[last.match] :
                    games[last.match][n].winner = "team2"}) = 2
  /\ last.winner_just_set
  /\ winner[last.match] = "team2"

\* C6: after a winner recomputation (a Game save or a Match save), the match
\* winner is null whenever neither side has floor(best_of/2) + 1 game wins.
C6_WinnerReverts ==
  \A m \in matches :
    (/\ last.op \in SaveOps
     /\ last.match = m
     /\ \A t \in Teams :
          Cardinality({n \in DOMAIN games[m] : games[m][n].winner = t})
            < (best_of[m] \div 2) + 1)
    => winner[m] = NoTeam

HasVerifiedAccount(p) == account[p] \in {"verified", "verified_noemail"}

\* C7: a team is confirmed iff every member with a verified account has a
\* MatchConfirmation row (so a team without verified members is confirmed
\* with no rows), and match_confirmed is the conjunction of the two teams.
C7_TeamConfirmed ==
  \A m \in matches :
    /\ team1_confirmed(m)
         <=> \A p \in team1[m] : HasVerifiedAccount(p) => p \in confirmations[m]
    /\ team2_confirmed(m)
         <=> \A p \in team2[m] : HasVerifiedAccount(p) => p \in confirmations[m]
    /\ match_confirmed(m) <=> (team1_confirmed(m) /\ team2_confirmed(m))

\* a team with one verified member confirmed and one not, against a team
\* without verified members and without rows
C7_Witness ==
  \E m \in matches :
    /\ \E p \in team1[m] : HasVerifiedAccount(p) /\ p \in confirmations[m]
    /\ \E p \in team1[m] : HasVerifiedAccount(p) /\ p \notin confirmations[m]
    /\ ~team1_confirmed(m)
    /\ \A p \in team2[m] : ~HasVerifiedAccount(p) /\ p \notin confirmations[m]
    /\ team2_confirmed(m)
    /\ ~match_confirmed(m)

\* C8: should_auto_confirm is true exactly when the match has a winner, is
\* not match_confirmed and at least one team has no verified member.
C8_ShouldAutoConfirm ==
  \A m \in matches :
    should_auto_confirm(m, winner[m])
      <=> /\ winner[m] # NoTeam
          /\ ~(team1_confirmed(m) /\ team2_confirmed(m))
          /\ \/ \A p \in team1[m] : ~HasVerifiedAccount(p)
             \/ \A p \in team2[m] : ~HasVerifiedAccount(p)

\* true with one verified and one unverified team
C8_Witness ==
  \E m \in matches :
    /\ should_auto_confirm(m, winner[m])
    /\ \E p \in Participants(m) : HasVerifiedAccount(p)
    /\ \E t \in Teams : \A p \in TeamPlayers(m, t) : ~HasVerifiedAccount(p)

\* C9: a save that moves the winner from null to set while should_auto_confirm
\* is true leaves a MatchConfirmation row for every player of both teams, keeps
\* the rows that existed, raises nothing and leaves the match match_confirmed.
C9_AutoConfirm ==
  [][\A m \in matches :
       (/\ last'.op \in SaveOps
        /\ last'.match = m
        /\ winner[m] = NoTeam
        /\ winner'[m] # NoTeam
        /\ ~(team1_confirmed(m) /\ team2_confirmed(m))
        /\ \E t \in Teams : \A p \in TeamPlayers(m, t) : ~HasVerifiedAccount(p))
       => /\ confirmations'[m] = confirmations[m] \cup team1[m] \cup team2[m]
          /\ (team1_confirmed(m) /\ team2_confirmed(m))'
          /\ ~last'.raised]_vars

\* an auto-confirming save of a match that already had a row
C9_Witness ==
  /\ last.op \in SaveOps
  /\ last.auto_confirmed
  /\ last.rows_before # {}
  /\ last.rows_before # Participants(last.match)
  /\ confirmations[last.match] = Participants(last.match)
  /\ match_confirmed(last.match)

\* The save in which the winner of m goes from null to set without
\* auto-confirm
CompletesUnconfirmed(m) ==
  /\ last'.op \in SaveOps
  /\ last'.match = m
  /\ winner[m] = NoTeam
  /\ winner'[m] # NoTeam
  /\ ~(/\ ~(team1_confirmed(m) /\ team2_confirmed(m))
       /\ \E t \in Teams : \A p \in TeamPlayers(m, t) : ~HasVerifiedAccount(p))

C11_ConfirmedIsTerminal ==
  [][\A m \in matches :
       (winner[m] # NoTeam /\ match_confirmed(m)) => match_confirmed(m)']_vars

\* C12: a match without a winner is never reported match_confirmed.
C12_ConfirmedNeedsWinner ==
  \A m \in matches : match_confirmed(m) => winner[m] # NoTeam

\* C13: a rating application adds one and the same delta to every member of
\* a side (the delta recorded in the member's EloHistory row), sets every
\* participant's elo_peak to the larger of the old peak and the new rating and
\* adds 1 to every participant's matches_for_elo.
C13_SameDeltaPerSide ==
  [][\A m \in matches :
       (last'.applied /\ last'.match = m)
       => /\ \A t \in Teams : \A p, q \in TeamPlayers(m, t) :
               elo_rating'[p] - elo_rating[p] = elo_rating'[q] - elo_rating[q]
          /\ \A p \in Participants(m) :
               /\ elo_peak'[p] =
                    IF elo_peak[p] >= elo_rating'[p] THEN elo_peak[p]
                    ELSE elo_rating'[p]
               /\ matches_for_elo'[p] = matches_for_elo[p] + 1
               /\ \E h \in elo_history' :
                    /\ h.match = m
                    /\ h.player = p
                    /\ h.rating_change = elo_rating'[p] - elo_rating[p]]_vars

\* a two-player side rated: one player's peak raised, another's kept above a
\* lowered rating
C13_Witness ==
  /\ last.applied
  /\ last.match \in matches
  /\ Cardinality(team1[last.match]) = 2
  /\ \A p \in Participants(last.match) : elo_rating[p] # initial.elo_rating[p]
  /\ \E p \in Participants(last.match) : elo_peak[p] > initial.elo_peak[p]
  /\ \E p \in Participants(last.match) :
       elo_peak[p] = initial.elo_peak[p] /\ elo_rating[p] < initial.elo_rating[p]

PlayerRows(p) == {h \in elo_history : h.player = p}

\* C14: with players starting at the defaults and ratings applied one after
\* the other, every rated match has exactly one EloHistory row per
\* participant, every row has new_rating = old_rating + rating_change, each
\* player's elo_rating is 1500 plus the sum of the rating_change of the
\* player's rows, and matches_for_elo is the number of those rows.
C14_HistoryAudits ==
  /\ \A m \in matches :
       (\E h \in elo_history : h.match = m)
       => \A p \in Players :
            Cardinality(RowsOf(m, p)) = IF p \in team1[m] \cup team2[m] THEN 1 ELSE 0
  /\ \A h \in elo_history : h.new_rating = h.old_rating + h.rating_change
  /\ \A p \in Players :
       /\ elo_rating[p] =
            DefaultElo + SumOver([h \in PlayerRows(p) |-> h.rating_change], PlayerRows(p))
       /\ matches_for_elo[p] = Cardinality(PlayerRows(p))

\* both matches rated: a player with two rows whose changes do not cancel
C14_Witness ==
  /\ \A m \in matches : \E h \in elo_history : h.match = m
  /\ \E p \in Players :
       /\ Cardinality(PlayerRows(p)) = 2
       /\ elo_rating[p] # DefaultElo
       /\ \A h \in PlayerRows(p) : h.rating_change # 0

\* The matches a replay has to rate: those with a winner that are
\* match_confirmed
EligibleMatches == {m \in matches : winner[m] # NoTeam /\ match_confirmed(m)}

\* The eligible matches played before m that p took part in
EarlierOf(m, p) == {k \in EligibleMatches : k < m /\ p \in Participants(k)}

\* C15: after a non-dry-run recalculate_elo the rated matches are exactly the
\* matches with a winner that are match_confirmed, singles and doubles, each
\* with one row per participant, and each match is rated from the ratings left
\* by the earlier ones: a row's old_rating is the new_rating of the player's
\* row for the latest earlier eligible match, or 1500 if there is none.
C15_ReplaysEligibleInOrder ==
  last.op = "recalculate_elo"
  => /\ {m \in matches : \E h \in elo_history : h.match = m} = EligibleMatches
     /\ \A m \in EligibleMatches : \A p \in Participants(m) :
          /\ Cardinality(RowsOf(m, p)) = 1
          /\ \A h \in RowsOf(m, p) :
               IF EarlierOf(m, p) = {}
               THEN h.old_rating = DefaultElo
               ELSE \E k \in EarlierOf(m, p) :
                      /\ \A j \in EarlierOf(m, p) : j <= k
                      /\ \A g \in RowsOf(k, p) : h.old_rating = g.new_rating

\* One match of a replay applied to the rating state st
ReplayStep(st, m) ==
  LET after(p) == PlayerAfter(m, p, winner[m], st.elo_rating, st.elo_peak,
                              st.matches_for_elo)
  IN [elo_rating |->
        [p \in Players |->
           IF p \in Participants(m) THEN after(p).elo_rating ELSE st.elo_rating[p]],
      elo_peak |->
        [p \in Players |->
           IF p \in Participants(m) THEN after(p).elo_peak ELSE st.elo_peak[p]],
      matches_for_elo |->
        [p \in Players |->
           IF p \in Participants(m) THEN after(p).matches_for_elo
           ELSE st.matches_for_elo[p]],
      elo_history |->
        st.elo_history \cup
          {HistoryRow(m, p, winner[m], st.elo_rating, st.matches_for_elo) :
             p \in Participants(m)}]

\* The matches ms applied to st in ascending order
RECURSIVE Replay(_, _)
Replay(ms, st) ==
  IF ms = {} THEN st
  ELSE LET m == CHOOSE x \in ms : \A y \in ms : x <= y
       IN Replay(ms \ {m}, ReplayStep(st, m))

\* The rating state a replay of the eligible matches from the defaults gives
Replayed ==
  Replay(EligibleMatches,
         [elo_rating |-> [p \in Players |-> DefaultElo],
          elo_peak |-> [p \in Players |-> DefaultElo],
          matches_for_elo |-> [p \in Players |-> 0],
          elo_history |-> {}])

\* C16: the state after a non-dry-run recalculate_elo is the replay of the
\* eligible matches from (1500, 1500, 0) with an empty history, whatever
\* ratings and rows existed before.
C16_ResultIsReplayFromDefaults ==
  last.op = "recalculate_elo"
  => /\ elo_rating = Replayed.elo_rating
     /\ elo_peak = Replayed.elo_peak
     /\ matches_for_elo = Replayed.matches_for_elo
     /\ elo_history = Replayed.elo_history

\* C17: recalculate_elo --dry-run leaves elo_rating, elo_peak, matches_for_elo
\* and the EloHistory rows unchanged.
C17_DryRunChangesNothing ==
  [][last'.op = "recalculate_elo_dry_run" => UNCHANGED RatingState]_vars

\* a dry run on a database with rated matches whose state a replay would
\* change
C17_Witness ==
  /\ last.op = "recalculate_elo_dry_run"
  /\ elo_history # {}
  /\ elo_history # Replayed.elo_history

Ended == \A q \in Procs : pc[q] \in {"done", "skipped", "raised"}

SharedPlayers == (team1[1] \cup team2[1]) \cap (team1[2] \cup team2[2])

\* C20: when concurrent runs of update_player_elo for two eligible matches
\* that share a player have both ended, the shared player's elo_rating is the
\* starting rating plus both recorded rating_change values and matches_for_elo
\* has grown by 2.
C20_NoLostUpdate ==
  (\A q \in Procs : pc[q] = "done")
  => \A p \in SharedPlayers :
       /\ Cardinality(PlayerRows(p)) = 2
       /\ elo_rating[p] =
            initial.elo_rating[p]
              + SumOver([h \in PlayerRows(p) |-> h.rating_change], PlayerRows(p))
       /\ matches_for_elo[p] = initial.matches_for_elo[p] + 2

\* C21: an update_player_elo invocation that loses the race for its match and
\* whose EloHistory insert hits the unique (match, player) constraint ends as
\* a successful no-op: no IntegrityError reaches its caller, and the only
\* application on the match is the winner's.
C21_DuplicateAbsorbed ==
  /\ \A q \in Procs : pc[q] # "raised"
  /\ (/\ winner[1] # NoTeam
      /\ match_confirmed(1)
      /\ \A q \in Procs : pc[q] \in {"done", "skipped"})
     => SingleApplication(1)

\* C22: at most one MatchConfirmation row exists per (match, player), and
\* neither a repeated match_confirm by the same player nor a match_confirm
\* racing the auto-confirm bulk insert ends in an error.
C22_OneRowNoError ==
  /\ \A p \in Players : confirmation_rows[p] <= 1
  /\ \A q \in Procs : pc[q] # "raised"

\* a match_confirm lost the race for its row: its insert hit the constraint
\* and it is about to read the winner's row
C22_Witness ==
  /\ \E q \in Procs : pc[q] = "reget"
  /\ \E q \in Procs : pc[q] = "done"
  /\ confirmation_rows[Confirmer] = 1

\* The cache keys C23 lists for match m
C23Keys(m) ==
  {<<"player_stats", p>> : p \in team1[m] \cup team2[m]}
    \cup {<<"pending_matches", p>> : p \in team1[m] \cup team2[m]}
    \cup {<<"team_stats", team1[m]>>, <<"team_stats", team2[m]>>}
    \cup {<<"dashboard_total_matches", 0>>, <<"dashboard_recent_matches", 0>>}
    \cup (IF Cardinality(team1[m]) = 1 /\ Cardinality(team2[m]) = 1
          THEN {<<"h2h", <<x[1], x[2]>>>> :
                  x \in {y \in Players \X Players :
                           /\ y[1] < y[2]
                           /\ {y[1], y[2]} = team1[m] \cup team2[m]}}
          ELSE {})

\* C23: after invalidate_match_caches(match) the cache holds none of the
\* player_stats and pending_matches keys of the players of either team, none
\* of the team_stats keys of the two teams, neither dashboard_total_matches
\* nor dashboard_recent_matches, not the h2h key of the pair when both teams
\* have one player, and leaderboard_generation is higher than before.
C23_MatchCachesInvalidated ==
  [][last'.op = "invalidate_match_caches"
       => /\ \A k \in C23Keys(last'.match) : ~cache'[k].present
          /\ cache'[leaderboard_generation].present
          /\ Generation(cache') > Generation(cache)]_vars

\* the function has run on a singles match with every listed key cached
C23_Witness ==
  /\ last.op = "invalidate_match_caches"
  /\ Cardinality(team1[last.match]) = 1
  /\ Cardinality(team2[last.match]) = 1
  /\ C23Keys(last.match) \subseteq last.rows_before
  /\ leaderboard_generation \in last.rows_before

\* The players a mutation affects: the players of the match of a Game save or
\* a confirmation, the saved player of a Player save
Affected(l) ==
  IF l.op = "player_save" THEN {l.match} ELSE team1[l.match] \cup team2[l.match]

\* C24: after a Game save, after a MatchConfirmation is created and after a
\* Player save, the player_stats and pending_matches entries of the affected
\* players are absent and leaderboard_generation is higher than before; after
\* a Game save or a confirmation the dashboard keys and, for a singles match,
\* the head-to-head key of the pair are absent as well.
C24_MutationsInvalidate ==
  [][last'.op \in {"game_save", "match_confirm", "player_save"}
       => /\ \A p \in Affected(last') :
               /\ ~cache'[<<"player_stats", p>>].present
               /\ ~cache'[<<"pending_matches", p>>].present
          /\ last'.op # "player_save"
               => \A k \in C23Keys(last'.match) : ~cache'[k].present
          /\ Generation(cache') > Generation(cache)]_vars

\* C25: invalidate_leaderboard() adds exactly 1 to leaderboard_generation and
\* keeps its expiry when the key exists, and stores 1 with no expiry when the
\* key is absent.
C25_GenerationBump ==
  [][last'.op = "invalidate_leaderboard"
       => cache'[leaderboard_generation] =
            IF cache[leaderboard_generation].present
            THEN [present |-> TRUE,
                  value |-> cache[leaderboard_generation].value + 1,
                  timeout |-> cache[leaderboard_generation].timeout]
            ELSE [present |-> TRUE, value |-> 1, timeout |-> NoExpiry]]_vars

\* the function has run on a cache without the key
C25_Witness ==
  /\ last.op = "invalidate_leaderboard"
  /\ leaderboard_generation \notin last.rows_before
  /\ cache[leaderboard_generation].present

\* C29: under any interleaving of concurrent invalidate_leaderboard calls,
\* calls that find the key absent included, leaderboard_generation never
\* decreases (and so never returns to a value it held earlier).
C29_GenerationMonotonic ==
  [][Generation(cache') >= Generation(cache)]_vars

\* C26: the outcome of a Game or Match save does not depend on the current
\* user: whoever the thread-local user is, the save stores the winner, detects
\* the null-to-set transition and performs the auto-confirm, notification and
\* rating steps of the save run without a current user on the same rows.
C26_ActorAgnostic ==
  [][last'.op \in SaveOps
       => MatchSaveSteps(last'.match, games'[last'.match], last'.op)]_vars

\* 32 x type multiplier x best_of multiplier x experience multiplier, in
\* tenths, with the multipliers as the fractions 3/2, 9/10, 11/10
KFactorTable(type, length, played) ==
  LET t == IF type = "tournament" THEN 3 ELSE 2
      b == CASE length = 3 -> 9 [] length = 7 -> 11 [] OTHER -> 10
      e == IF played < 20 THEN 3 ELSE 2
  IN 8 * t * b * e

\* C27: calculate_k_factor is 32 x (1.5 for a tournament, else 1.0) x (0.9,
\* 1.0, 1.1 for best_of 3, 5, 7, 1.0 otherwise) x (1.5 below 20 rated matches,
\* else 1.0): 32 for casual/best-of-5/experienced, 48 for a tournament, 28.8
\* for best-of-3, 35.2 for best-of-7, practice as casual, no boost at exactly
\* 20; and this is the k_factor update_player_elo records for a singles match.
C27_KFactor ==
  /\ \A p \in Participants(1) :
       LET k == calculate_k_factor(1, matches_for_elo[p])
       IN /\ k = KFactorTable(match_type[1], best_of[1], matches_for_elo[p])
          /\ (matches_for_elo[p] >= 20 /\ match_type[1] # "tournament")
               => k = (CASE best_of[1] = 3 -> 288 [] best_of[1] = 7 -> 352
                         [] OTHER -> 320)
          /\ (matches_for_elo[p] >= 20 /\ match_type[1] = "tournament"
                /\ best_of[1] = 5) => k = 480
  /\ \A h \in elo_history :
       h.k_factor = 2 * KFactorTable(match_type[1], best_of[1],
                                     initial.matches_for_elo[h.player])

\* a casual best-of-5 match was rated for a player with exactly 20 rated
\* matches: K = 32
C27_Witness ==
  /\ last.applied
  /\ match_type[1] = "casual"
  /\ best_of[1] = 5
  /\ initial.matches_for_elo[1] = 20
  /\ \E h \in elo_history : h.player = 1 /\ h.k_factor = 640

\* C28: after every Game save, creating the game or updating its scores,
\* Game.winner is the team with the strictly higher score and is null when
\* the two scores are equal, so that a tied game is a win for neither side.
C28_GameWinnerFollowsScores ==
  \A m \in matches : \A n \in DOMAIN games[m] :
    games[m][n].winner =
      (IF games[m][n].team1_score > games[m][n].team2_score THEN "team1"
       ELSE IF games[m][n].team2_score > games[m][n].team1_score THEN "team2"
       ELSE NoTeam)

\* C30: once Match.winner is set to one team, no later Game save or Match
\* save changes it to the other team.
C30_WinnerStable ==
  [][\A m \in matches :
       (winner[m] # NoTeam /\ last'.op \in SaveOps) => winner'[m] = winner[m]]_vars

====
